---------------------------- MODULE Spec2Model ----------------------------
(***************************************************************************)
(* The request scheduler of AI Photo Studio Pro (src/App.tsx): the React   *)
(* state of the App component, its event handlers, its two effects and the *)
(* asynchronous processStyle call, as one state machine.                   *)
(*                                                                         *)
(* React semantics used by the model:                                      *)
(*  - an event handler, a timer callback or the continuation of an await   *)
(*    runs to completion and its state updates are committed together;     *)
(*  - the Queue Processor effect runs after a commit that changed one of   *)
(*    its dependencies (effectPending).  After a commit made by an event   *)
(*    handler it runs before anything else.  After a commit made by the    *)
(*    interval callback or by the continuation of processStyle it is only  *)
(*    scheduled: one event handler or one continuation of processStyle may *)
(*    run first, and the effect then runs as a closure of the render that  *)
(*    scheduled it (stale), before the new state is rendered;              *)
(*  - processStyle is a closure of the render whose effect called it: in   *)
(*    its continuation consecutiveErrors, state.uploadedImage and          *)
(*    state.gender have the values of that render (fields of a call        *)
(*    record), while functional updates (prev => ...) read the current     *)
(*    state.                                                               *)
(*                                                                         *)
(* Strings are atomic values; String.includes is the table Includes.       *)
(* timeRemaining and isAlbumOpen are display-only state and are not part   *)
(* of the model.                                                           *)
(***************************************************************************)
EXTENDS Integers, Sequences, FiniteSets, Bags, TLC

\* ------------------------------------------------------------ constants
MAX_CONCURRENCY == 1
REQUEST_DELAY_MS == 10000
BASE_COOLDOWN_MS == 60000
MAX_CONSECUTIVE_ERRORS == 3

\* ------------------------------------------------------------ bounds
\* Number of presets in the catalog (ids 1..NumStyles).
NumStyles == 2
\* Number of times the user may press "Continue to Style Selection".
MaxStarts == 2
\* The clock advances MaxTicks times before the time origin is moved.
MaxTicks == 1
\* A rate-limit failure is modelled only while the streak stays <= MaxStreak.
MaxStreak == 4

PHOTO_STYLES == 1..NumStyles

null == "null"
undefined == "undefined"

Images == {"data:image/png;base64,AAAA"}
Genders == {"female"}
ImageUrls == {"data:image/png;base64,BBBB"}

\* Messages of the errors generateStyledImage can throw.
ErrorMessages ==
  { "", "429 Too Many Requests", "You exceeded your current quota",
    "RESOURCE_EXHAUSTED", "No image data found in response" }

\* One step of the wall clock.
TickMs == BASE_COOLDOWN_MS
MaxNow == MaxTicks * TickMs

Max(a, b) == IF a >= b THEN a ELSE b

\* Math.ceil(a / b) for b > 0.
Ceil(a, b) == -((-a) \div b)

\* Math.pow(2, n) for n >= 0.
RECURSIVE Pow2(_)
Pow2(n) == IF n <= 0 THEN 1 ELSE 2 * Pow2(n - 1)

\* s.includes(needle), for the messages of ErrorMessages.
Includes(s, needle) ==
  \/ needle = "429" /\ s = "429 Too Many Requests"
  \/ needle = "quota" /\ s = "You exceeded your current quota"
  \/ needle = "RESOURCE_EXHAUSTED" /\ s = "RESOURCE_EXHAUSTED"

\* ------------------------------------------------------------ sequences as ordered sets
RECURSIVE SelectIn(_, _)
\* Array.prototype.filter: the elements of s that are in S, in order.
SelectIn(s, S) ==
  IF s = <<>> THEN <<>>
  ELSE IF Head(s) \in S THEN <<Head(s)>> \o SelectIn(Tail(s), S)
       ELSE SelectIn(Tail(s), S)

Range(s) == { s[i] : i \in DOMAIN s }

\* Set.prototype.add: insertion order, an element already present keeps its place.
SetAdd(s, x) == IF x \in Range(s) THEN s ELSE Append(s, x)

\* Set.prototype.delete.
SetDelete(s, x) == SelectIn(s, Range(s) \ {x})

RECURSIVE SetAddAll(_, _)
SetAddAll(s, xs) ==
  IF xs = <<>> THEN s ELSE SetAddAll(SetAdd(s, Head(xs)), Tail(xs))

RECURSIVE Ascending(_)
\* The elements of a set of ids in ascending order (Object.values of a record
\* with integer keys enumerates in ascending key order).
Ascending(S) ==
  IF S = {} THEN <<>>
  ELSE LET m == CHOOSE x \in S : \A y \in S : x <= y
       IN <<m>> \o Ascending(S \ {m})

VARIABLES
  uploadedImage,      \* state.uploadedImage: null or a data URL
  gender,             \* state.gender
  queue,              \* state.queue: sequence of style ids
  activeRequests,     \* state.activeRequests
  results,            \* results: style id -> GeneratedImage; empty before the first start
  selectedStyles,     \* selectedStyles: a Set, in insertion order
  cooldownUntil,      \* cooldownUntil: timestamp or 0
  consecutiveErrors,  \* consecutiveErrors
  isPaused,           \* isPaused
  now,                \* Date.now()
  calls,              \* bag of generateStyledImage calls that have not settled
  effectPending,      \* the Queue Processor effect is due (a dependency changed)
  starts,             \* number of handleStart calls so far
  lastEvent,          \* the handler or callback that ran last
  before,             \* isPaused and consecutiveErrors as they were before that event
  streak,             \* rate-limit failures since the last success, permanent
                      \* failure, explicit resume or start
  requeued,           \* the oldest id put back at the head of the queue and not
                      \* dispatched since (0: none)
  recentSuccess,      \* a call completed successfully less than
                      \* REQUEST_DELAY_MS ago
  stale               \* the render whose Queue Processor effect was still due
                      \* when an event handler ran (<<>>: none)

vars == << uploadedImage, gender, queue, activeRequests, results, selectedStyles,
           cooldownUntil, consecutiveErrors, isPaused, now, calls, effectPending,
           starts, lastEvent, before, streak, requeued, recentSuccess,
           stale >>

\* ------------------------------------------------------------ helpers
hasStarted == DOMAIN results # {}

StatusIds(st) == { id \in DOMAIN results : results[id].status = st }

InFlight == BagCardinality(calls)

\* The record kept in `before` by every event.
Snapshot == [isPaused |-> isPaused, consecutiveErrors |-> consecutiveErrors]

\* ------------------------------------------------------------ initial state
\* What the Queue Processor effect and processStyle read from the render they
\* are closures of.
Closure ==
  [queue |-> queue, consecutiveErrors |-> consecutiveErrors,
   uploadedImage |-> uploadedImage, gender |-> gender]

\* A commit made outside an event handler (the interval callback, the
\* continuation of processStyle) schedules its effects instead of running
\* them at once: an event handler may run first.  Only a Queue Processor run
\* that dispatches is told apart from one that ran before the handler.
EffectDelayed ==
  /\ effectPending
  /\ stale = <<>>
  /\ lastEvent \in {"cooldownExpired", "permanentFailure"}
  /\ ~(isPaused \/ cooldownUntil > now)
  /\ ~(Len(queue) = 0 \/ activeRequests >= MAX_CONCURRENCY
         \/ uploadedImage = null)

Init ==
  /\ uploadedImage = null
  /\ gender = "female"
  /\ queue = <<>>
  /\ activeRequests = 0
  /\ results = <<>>
  /\ selectedStyles = <<>>
  /\ cooldownUntil = 0
  /\ consecutiveErrors = 0
  /\ isPaused = FALSE
  /\ now = 0
  /\ calls = EmptyBag
  /\ effectPending = TRUE
  /\ starts = 0
  /\ lastEvent = "mount"
  /\ before = [isPaused |-> FALSE, consecutiveErrors |-> 0]
  /\ streak = 0
  /\ requeued = 0
  /\ recentSuccess = FALSE
  /\ stale = <<>>

\* ------------------------------------------------------------ user actions
\* handleStart, but the cooldown of the previous session is kept.
handleStart_KeepsCooldown(image, g) ==
  /\ ~effectPending
  /\ starts < MaxStarts
  /\ results' = [ id \in PHOTO_STYLES |->
                    [styleId |-> id, imageUrl |-> null, status |-> "idle",
                     error |-> undefined] ]
  /\ selectedStyles' = <<>>
  /\ uploadedImage' = image
  /\ gender' = g
  /\ queue' = <<>>
  /\ activeRequests' = 0
  /\ consecutiveErrors' = 0
  /\ isPaused' = FALSE
  /\ effectPending' = TRUE
  /\ starts' = starts + 1
  /\ lastEvent' = "start"
  /\ before' = Snapshot
  /\ UNCHANGED stale
  /\ UNCHANGED recentSuccess
  /\ streak' = 0
  /\ requeued' = 0
  /\ UNCHANGED << now, calls, cooldownUntil >>

\* The start button of UploadSection is never disabled.
handleStart(image, g) ==
  /\ ~effectPending \/ EffectDelayed
  /\ starts < MaxStarts
  /\ results' = [ id \in PHOTO_STYLES |->
                    [styleId |-> id, imageUrl |-> null, status |-> "idle",
                     error |-> undefined] ]
  /\ selectedStyles' = <<>>
  /\ uploadedImage' = image
  /\ gender' = g
  /\ queue' = <<>>
  /\ activeRequests' = 0
  /\ cooldownUntil' = 0
  /\ consecutiveErrors' = 0
  /\ isPaused' = FALSE
  /\ effectPending' = TRUE
  /\ starts' = starts + 1
  /\ lastEvent' = "start"
  /\ before' = Snapshot
  /\ stale' = IF effectPending THEN <<Closure>> ELSE <<>>
  /\ UNCHANGED recentSuccess
  /\ streak' = 0
  /\ requeued' = 0
  /\ UNCHANGED << now, calls >>

\* handleRetry, but ending the pause also resets the governor, as an explicit
\* resume does.
handleRetry_ResetsGovernor(styleId) ==
  /\ ~effectPending
  /\ styleId \in DOMAIN results
  /\ results[styleId].status \in {"completed", "failed"}
  /\ results' = [results EXCEPT ![styleId] =
                   [@ EXCEPT !.status = "pending", !.error = undefined,
                             !.imageUrl = null]]
  /\ selectedStyles' = SetDelete(selectedStyles, styleId)
  /\ queue' = Append(queue, styleId)
  /\ isPaused' = IF isPaused THEN FALSE ELSE isPaused
  /\ consecutiveErrors' = IF isPaused THEN 0 ELSE consecutiveErrors
  /\ cooldownUntil' = IF isPaused THEN 0 ELSE cooldownUntil
  /\ effectPending' = TRUE
  /\ lastEvent' = "retry"
  /\ before' = Snapshot
  /\ UNCHANGED stale
  /\ UNCHANGED recentSuccess
  /\ UNCHANGED << uploadedImage, gender, activeRequests, now, calls, starts,
                  streak, requeued >>

\* StyleGrid offers retry on completed and failed tiles.
handleRetry(styleId) ==
  /\ ~effectPending \/ EffectDelayed
  /\ styleId \in DOMAIN results
  /\ results[styleId].status \in {"completed", "failed"}
  /\ results' = [results EXCEPT ![styleId] =
                   [@ EXCEPT !.status = "pending", !.error = undefined,
                             !.imageUrl = null]]
  /\ selectedStyles' = SetDelete(selectedStyles, styleId)
  /\ queue' = Append(queue, styleId)
  /\ isPaused' = IF isPaused THEN FALSE ELSE isPaused
  /\ effectPending' = TRUE
  /\ lastEvent' = "retry"
  /\ before' = Snapshot
  /\ stale' = IF effectPending THEN <<Closure>> ELSE <<>>
  /\ UNCHANGED recentSuccess
  /\ UNCHANGED << uploadedImage, gender, activeRequests, cooldownUntil,
                  consecutiveErrors, now, calls, starts, streak,
                  requeued >>

stylesToGenerate == SelectIn(selectedStyles, StatusIds("idle"))

\* handleGenerateSelected, but only the ids that were enqueued leave the
\* selection.
handleGenerateSelected_KeepsOthers ==
  /\ ~effectPending
  /\ hasStarted
  /\ Len(stylesToGenerate) > 0
  /\ results' = [ id \in DOMAIN results |->
                    IF id \in Range(stylesToGenerate)
                      THEN [results[id] EXCEPT !.status = "pending"]
                      ELSE results[id] ]
  /\ queue' = queue \o stylesToGenerate
  /\ selectedStyles' =
       SelectIn(selectedStyles, Range(selectedStyles) \ Range(stylesToGenerate))
  /\ isPaused' = IF isPaused THEN FALSE ELSE isPaused
  /\ effectPending' = TRUE
  /\ lastEvent' = "generateSelected"
  /\ before' = Snapshot
  /\ UNCHANGED stale
  /\ UNCHANGED recentSuccess
  /\ UNCHANGED << uploadedImage, gender, activeRequests, cooldownUntil,
                  consecutiveErrors, now, calls, starts, streak,
                  requeued >>

\* StyleGrid renders its Generate buttons only while an idle id is selected.
handleGenerateSelected ==
  /\ ~effectPending \/ EffectDelayed
  /\ hasStarted
  /\ Len(stylesToGenerate) > 0
  /\ IF Len(stylesToGenerate) = 0
       THEN /\ lastEvent' = "generateNone"
            /\ UNCHANGED << results, queue, selectedStyles, isPaused, effectPending >>
       ELSE /\ results' = [ id \in DOMAIN results |->
                              IF id \in Range(stylesToGenerate)
                                THEN [results[id] EXCEPT !.status = "pending"]
                                ELSE results[id] ]
            /\ queue' = queue \o stylesToGenerate
            /\ selectedStyles' = <<>>
            /\ isPaused' = IF isPaused THEN FALSE ELSE isPaused
            /\ effectPending' = TRUE
            /\ lastEvent' = "generateSelected"
  /\ before' = Snapshot
  /\ stale' = IF effectPending THEN <<Closure>> ELSE <<>>
  /\ UNCHANGED recentSuccess
  /\ UNCHANGED << uploadedImage, gender, activeRequests, cooldownUntil,
                  consecutiveErrors, now, calls, starts, streak,
                  requeued >>

\* toggleSelection, but deselecting a completed id also forgets its image.
toggleSelection_Forgets(id) ==
  /\ ~effectPending
  /\ id \in DOMAIN results
  /\ results[id].status \in {"idle", "completed"}
  /\ selectedStyles' = IF id \in Range(selectedStyles)
                         THEN SetDelete(selectedStyles, id)
                         ELSE SetAdd(selectedStyles, id)
  /\ results' = IF id \in Range(selectedStyles)
                  THEN [results EXCEPT ![id] = [@ EXCEPT !.imageUrl = null]]
                  ELSE results
  /\ lastEvent' = "toggleSelection"
  /\ before' = Snapshot
  /\ UNCHANGED stale
  /\ UNCHANGED recentSuccess
  /\ UNCHANGED << uploadedImage, gender, queue, activeRequests,
                  cooldownUntil, consecutiveErrors, isPaused, now, calls,
                  effectPending, starts, streak, requeued >>

\* A tile toggles its selection only while it is idle or completed.
toggleSelection(id) ==
  /\ ~effectPending
  /\ id \in DOMAIN results
  /\ results[id].status \in {"idle", "completed"}
  /\ selectedStyles' = IF id \in Range(selectedStyles)
                         THEN SetDelete(selectedStyles, id)
                         ELSE SetAdd(selectedStyles, id)
  /\ lastEvent' = "toggleSelection"
  /\ before' = Snapshot
  /\ UNCHANGED stale
  /\ UNCHANGED recentSuccess
  /\ UNCHANGED << uploadedImage, gender, queue, activeRequests, results,
                  cooldownUntil, consecutiveErrors, isPaused, now, calls,
                  effectPending, starts, streak, requeued >>

idleIds == Ascending(StatusIds("idle"))
completedIds == Ascending(StatusIds("completed"))

\* handleSelectAll, but the idle and the completed ids are targeted together.
handleSelectAll_BothGroups ==
  /\ ~effectPending
  /\ hasStarted
  /\ selectedStyles' =
       IF Range(idleIds \o completedIds) \subseteq Range(selectedStyles)
         THEN <<>>
         ELSE SetAddAll(selectedStyles, idleIds \o completedIds)
  /\ lastEvent' = "selectAll"
  /\ before' = Snapshot
  /\ UNCHANGED stale
  /\ UNCHANGED recentSuccess
  /\ UNCHANGED << uploadedImage, gender, queue, activeRequests, results,
                  cooldownUntil, consecutiveErrors, isPaused, now, calls,
                  effectPending, starts, streak, requeued >>

handleSelectAll ==
  /\ ~effectPending
  /\ hasStarted
  /\ selectedStyles' =
       IF Len(idleIds) > 0
         THEN IF Range(idleIds) \subseteq Range(selectedStyles)
                THEN SelectIn(selectedStyles, Range(selectedStyles) \ Range(idleIds))
                ELSE SetAddAll(selectedStyles, idleIds)
         ELSE IF Len(completedIds) > 0
                THEN IF Range(completedIds) \subseteq Range(selectedStyles)
                       THEN <<>>
                       ELSE completedIds
                ELSE selectedStyles
  /\ lastEvent' = "selectAll"
  /\ before' = Snapshot
  /\ UNCHANGED stale
  /\ UNCHANGED recentSuccess
  /\ UNCHANGED << uploadedImage, gender, queue, activeRequests, results,
                  cooldownUntil, consecutiveErrors, isPaused, now, calls,
                  effectPending, starts, streak, requeued >>

\* handlePauseToggle, but a resume leaves the cooldown and the streak in place.
handlePauseToggle_OnlyFlips ==
  /\ ~effectPending
  /\ Len(queue) > 0
  /\ IF isPaused
       THEN /\ lastEvent' = "resume"
            /\ streak' = 0
       ELSE /\ UNCHANGED streak
            /\ lastEvent' = "pause"
  /\ isPaused' = ~isPaused
  /\ effectPending' = TRUE
  /\ before' = Snapshot
  /\ UNCHANGED stale
  /\ UNCHANGED recentSuccess
  /\ UNCHANGED << uploadedImage, gender, queue, activeRequests, results,
                  selectedStyles, now, calls, starts, requeued,
                  consecutiveErrors, cooldownUntil >>

\* The pause / resume control is rendered only while the queue is non-empty.
handlePauseToggle ==
  /\ ~effectPending \/ EffectDelayed
  /\ Len(queue) > 0
  /\ IF isPaused
       THEN /\ consecutiveErrors' = 0
            /\ cooldownUntil' = 0
            /\ lastEvent' = "resume"
            /\ streak' = 0
       ELSE /\ UNCHANGED << consecutiveErrors, cooldownUntil, streak >>
            /\ lastEvent' = "pause"
  /\ isPaused' = ~isPaused
  /\ effectPending' = TRUE
  /\ before' = Snapshot
  /\ stale' = IF effectPending THEN <<Closure>> ELSE <<>>
  /\ UNCHANGED recentSuccess
  /\ UNCHANGED << uploadedImage, gender, queue, activeRequests, results,
                  selectedStyles, now, calls, starts, requeued >>

\* ------------------------------------------------------------ effects
\* TimerTick, but the interval only counts down and never clears the cooldown.
TimerTick_CountsOnly ==
  /\ ~effectPending
  /\ ~(cooldownUntil = 0 \/ isPaused)
  /\ lastEvent' = "countdown"
  /\ before' = Snapshot
  /\ UNCHANGED stale
  /\ UNCHANGED recentSuccess
  /\ UNCHANGED << uploadedImage, gender, queue, activeRequests, results,
                  selectedStyles, cooldownUntil, consecutiveErrors, isPaused,
                  now, calls, effectPending, starts, streak, requeued >>

\* The interval callback of the Timer effect; the interval exists while
\* cooldownUntil # 0 and not isPaused.
TimerTick ==
  /\ ~effectPending
  /\ ~(cooldownUntil = 0 \/ isPaused)
  /\ LET left == Max(0, Ceil(cooldownUntil - now, 1000))
     IN IF left <= 0
          THEN /\ cooldownUntil' = 0
               /\ effectPending' = TRUE
               /\ lastEvent' = "cooldownExpired"
          ELSE /\ UNCHANGED << cooldownUntil, effectPending >>
               /\ lastEvent' = "countdown"
  /\ before' = Snapshot
  /\ UNCHANGED stale
  /\ UNCHANGED recentSuccess
  /\ UNCHANGED << uploadedImage, gender, queue, activeRequests, results,
                  selectedStyles, consecutiveErrors, isPaused, now, calls, starts,
                  streak, requeued >>

\* The Queue Processor effect: processQueue and processStyle up to its await.
QueueProcessor ==
  /\ effectPending
  /\ IF stale # <<>>
       THEN LET styleId == stale[1].queue[1]
                remainingQueue == SubSeq(stale[1].queue, 2, Len(stale[1].queue))
            IN /\ queue' = remainingQueue
               /\ results' = [results EXCEPT ![styleId].status = "generating"]
               /\ activeRequests' = activeRequests + 1
               /\ calls' = calls (+) SetToBag({
                     [styleId |-> styleId,
                      consecutiveErrors |-> stale[1].consecutiveErrors,
                      uploadedImage |-> stale[1].uploadedImage,
                      gender |-> stale[1].gender]})
               /\ effectPending' = TRUE
               /\ lastEvent' = "dispatch"
               /\ requeued' = 0
       ELSE IF isPaused \/ cooldownUntil > now
       THEN /\ effectPending' = FALSE
            /\ lastEvent' = "effectIdle"
            /\ UNCHANGED << queue, activeRequests, results, calls, requeued >>
       ELSE IF Len(queue) = 0 \/ activeRequests >= MAX_CONCURRENCY
                 \/ uploadedImage = null
         THEN /\ effectPending' = FALSE
              /\ lastEvent' = "effectIdle"
              /\ UNCHANGED << queue, activeRequests, results, calls, requeued >>
         ELSE LET styleId == queue[1]
                  remainingQueue == SubSeq(queue, 2, Len(queue))
              IN /\ queue' = remainingQueue
                 /\ results' = [results EXCEPT ![styleId].status = "generating"]
                 /\ IF styleId \notin PHOTO_STYLES \/ uploadedImage = null
                      THEN /\ activeRequests' = (activeRequests + 1) - 1
                           /\ UNCHANGED calls
                      ELSE /\ activeRequests' = activeRequests + 1
                           /\ calls' = calls (+) SetToBag({
                                [styleId |-> styleId,
                                 consecutiveErrors |-> consecutiveErrors,
                                 uploadedImage |-> uploadedImage,
                                 gender |-> gender]})
                 /\ effectPending' = TRUE
                 /\ lastEvent' = "dispatch"
                 /\ requeued' = 0
  /\ before' = Snapshot
  /\ stale' = <<>>
  /\ UNCHANGED recentSuccess
  /\ UNCHANGED << uploadedImage, gender, selectedStyles, cooldownUntil,
                  consecutiveErrors, isPaused, now, starts, streak >>

\* ------------------------------------------------------------ call resolution
isRateLimit(errorMessage) ==
  \/ Includes(errorMessage, "429")
  \/ Includes(errorMessage, "quota")
  \/ Includes(errorMessage, "RESOURCE_EXHAUSTED")

\* Succeeded, but the success also resumes a paused queue.
Succeeded_Resumes(c, imageUrl) ==
  /\ results' = [results EXCEPT ![c.styleId] =
                   [@ EXCEPT !.status = "completed", !.imageUrl = imageUrl]]
  /\ consecutiveErrors' = 0
  /\ cooldownUntil' = now + REQUEST_DELAY_MS
  /\ lastEvent' = "success"
  /\ streak' = 0
  /\ isPaused' = FALSE
  /\ UNCHANGED << queue, requeued >>

\* Succeeded, but the cooldown grows with the streak the call captured.
Succeeded_BacksOff(c, imageUrl) ==
  /\ results' = [results EXCEPT ![c.styleId] =
                   [@ EXCEPT !.status = "completed", !.imageUrl = imageUrl]]
  /\ consecutiveErrors' = 0
  /\ cooldownUntil' = now + REQUEST_DELAY_MS * Pow2(c.consecutiveErrors)
  /\ lastEvent' = "success"
  /\ streak' = 0
  /\ UNCHANGED << queue, isPaused, requeued >>

\* processStyle after generateStyledImage resolved with imageUrl.
Succeeded(c, imageUrl) ==
  /\ results' = [results EXCEPT ![c.styleId] =
                   [@ EXCEPT !.status = "completed", !.imageUrl = imageUrl]]
  /\ consecutiveErrors' = 0
  /\ cooldownUntil' = now + REQUEST_DELAY_MS
  /\ lastEvent' = "success"
  /\ streak' = 0
  /\ UNCHANGED << queue, isPaused, requeued >>

\* requeueFront, but the failing id goes to the tail.
requeueFront_AtTail(styleId, q) == Append(q, styleId)

\* queue: [styleId, ...prev.queue]
requeueFront(styleId, q) == <<styleId>> \o q

\* backoffTime with the exponent off by one.
backoffTime_Doubled(newConsecutiveErrors) ==
  BASE_COOLDOWN_MS * Pow2(newConsecutiveErrors)

\* backoffTime, but the backoff has not begun when the slot is released.
backoffTime_NotYet(newConsecutiveErrors) == 0

\* const backoffTime = BASE_COOLDOWN_MS * Math.pow(2, newConsecutiveErrors - 1)
backoffTime(newConsecutiveErrors) ==
  BASE_COOLDOWN_MS * Pow2(newConsecutiveErrors - 1)

\* Failed, but a permanent failure leaves consecutiveErrors as it is.
Failed_KeepsStreak(c, errorMessage) ==
  IF isRateLimit(errorMessage)
    THEN LET newConsecutiveErrors == c.consecutiveErrors + 1
         IN /\ consecutiveErrors' = newConsecutiveErrors
            /\ streak' = streak + 1
            /\ requeued' = IF requeued = 0 THEN c.styleId ELSE requeued
            /\ IF newConsecutiveErrors >= MAX_CONSECUTIVE_ERRORS
                 THEN /\ isPaused' = TRUE
                      /\ cooldownUntil' = 0
                      /\ queue' = requeueFront(c.styleId, queue)
                      /\ results' = [results EXCEPT ![c.styleId] =
                           [@ EXCEPT !.status = "pending",
                                     !.error = "Rate limit reached. Paused."]]
                      /\ lastEvent' = "circuitBreaker"
                 ELSE /\ cooldownUntil' = now + backoffTime(newConsecutiveErrors)
                      /\ queue' = requeueFront(c.styleId, queue)
                      /\ results' = [results EXCEPT ![c.styleId] =
                           [@ EXCEPT !.status = "pending", !.error = undefined]]
                      /\ lastEvent' = "rateLimit"
                      /\ UNCHANGED isPaused
    ELSE /\ results' = [results EXCEPT ![c.styleId] =
              [@ EXCEPT !.status = "failed",
                        !.error = IF errorMessage # "" THEN errorMessage
                                  ELSE "Unknown error"]]
         /\ lastEvent' = "permanentFailure"
         /\ streak' = 0
         /\ UNCHANGED << queue, cooldownUntil, isPaused, requeued, consecutiveErrors >>

\* Failed, but an empty error message is recorded as it is.
Failed_NoPlaceholder(c, errorMessage) ==
  IF isRateLimit(errorMessage)
    THEN LET newConsecutiveErrors == c.consecutiveErrors + 1
         IN /\ consecutiveErrors' = newConsecutiveErrors
            /\ streak' = streak + 1
            /\ requeued' = IF requeued = 0 THEN c.styleId ELSE requeued
            /\ IF newConsecutiveErrors >= MAX_CONSECUTIVE_ERRORS
                 THEN /\ isPaused' = TRUE
                      /\ cooldownUntil' = 0
                      /\ queue' = requeueFront(c.styleId, queue)
                      /\ results' = [results EXCEPT ![c.styleId] =
                           [@ EXCEPT !.status = "pending",
                                     !.error = "Rate limit reached. Paused."]]
                      /\ lastEvent' = "circuitBreaker"
                 ELSE /\ cooldownUntil' = now + backoffTime(newConsecutiveErrors)
                      /\ queue' = requeueFront(c.styleId, queue)
                      /\ results' = [results EXCEPT ![c.styleId] =
                           [@ EXCEPT !.status = "pending", !.error = undefined]]
                      /\ lastEvent' = "rateLimit"
                      /\ UNCHANGED isPaused
    ELSE /\ results' = [results EXCEPT ![c.styleId] =
              [@ EXCEPT !.status = "failed",
                        !.error = errorMessage]]
         /\ consecutiveErrors' = 0
         /\ lastEvent' = "permanentFailure"
         /\ streak' = 0
         /\ UNCHANGED << queue, cooldownUntil, isPaused, requeued >>

\* processStyle after generateStyledImage rejected with error.message = errorMessage.
Failed(c, errorMessage) ==
  IF isRateLimit(errorMessage)
    THEN LET newConsecutiveErrors == c.consecutiveErrors + 1
         IN /\ consecutiveErrors' = newConsecutiveErrors
            /\ streak' = streak + 1
            /\ requeued' = IF requeued = 0 THEN c.styleId ELSE requeued
            /\ IF newConsecutiveErrors >= MAX_CONSECUTIVE_ERRORS
                 THEN /\ isPaused' = TRUE
                      /\ cooldownUntil' = 0
                      /\ queue' = requeueFront(c.styleId, queue)
                      /\ results' = [results EXCEPT ![c.styleId] =
                           [@ EXCEPT !.status = "pending",
                                     !.error = "Rate limit reached. Paused."]]
                      /\ lastEvent' = "circuitBreaker"
                 ELSE /\ cooldownUntil' = now + backoffTime(newConsecutiveErrors)
                      /\ queue' = requeueFront(c.styleId, queue)
                      /\ results' = [results EXCEPT ![c.styleId] =
                           [@ EXCEPT !.status = "pending", !.error = undefined]]
                      /\ lastEvent' = "rateLimit"
                      /\ UNCHANGED isPaused
    ELSE /\ results' = [results EXCEPT ![c.styleId] =
              [@ EXCEPT !.status = "failed",
                        !.error = IF errorMessage # "" THEN errorMessage
                                  ELSE "Unknown error"]]
         /\ consecutiveErrors' = 0
         /\ lastEvent' = "permanentFailure"
         /\ streak' = 0
         /\ UNCHANGED << queue, cooldownUntil, isPaused, requeued >>

\* Settle, but the slot is not released when the circuit breaker trips.
Settle_LeaksOnBreaker(c) ==
  /\ ~effectPending
  /\ BagIn(c, calls)
  /\ \/ \E imageUrl \in ImageUrls : Succeeded(c, imageUrl)
     \/ \E errorMessage \in ErrorMessages :
          /\ isRateLimit(errorMessage) =>
               c.consecutiveErrors < MaxStreak /\ streak < MaxStreak
          /\ Failed(c, errorMessage)
  /\ before' = Snapshot
  /\ UNCHANGED stale
  /\ recentSuccess' = (recentSuccess \/ lastEvent' = "success")
  /\ activeRequests' = IF lastEvent' = "circuitBreaker" THEN activeRequests
                        ELSE activeRequests - 1
  /\ calls' = calls (-) SetToBag({c})
  /\ effectPending' = TRUE
  /\ UNCHANGED << uploadedImage, gender, selectedStyles, now, starts >>

\* The continuation of processStyle for call c, with its finally block.
Settle(c) ==
  /\ ~effectPending \/ EffectDelayed
  /\ BagIn(c, calls)
  /\ \/ \E imageUrl \in ImageUrls : Succeeded(c, imageUrl)
     \/ \E errorMessage \in ErrorMessages :
          /\ isRateLimit(errorMessage) =>
               c.consecutiveErrors < MaxStreak /\ streak < MaxStreak
          /\ Failed(c, errorMessage)
  /\ before' = Snapshot
  /\ stale' = IF effectPending THEN <<Closure>> ELSE <<>>
  /\ recentSuccess' = (recentSuccess \/ lastEvent' = "success")
  /\ activeRequests' = activeRequests - 1
  /\ calls' = calls (-) SetToBag({c})
  /\ effectPending' = TRUE
  /\ UNCHANGED << uploadedImage, gender, selectedStyles, now, starts >>

\* ------------------------------------------------------------ time
\* A timestamp moved back by d when the clock reads n.  0 means "no cooldown";
\* the code only tests cooldownUntil > now and cooldownUntil - now <= 0, so
\* every timestamp that is not in the future is kept as the past timestamp 1.
Shift(t, d, n) == IF t = 0 THEN 0 ELSE IF t - d <= n THEN 1 ELSE t - d

\* TickMs of wall-clock time pass.  The code only compares cooldownUntil with
\* Date.now(), so once now = MaxNow the time origin is moved instead.
Tick ==
  /\ ~effectPending
  /\ IF now + TickMs <= MaxNow
       THEN /\ now' = now + TickMs
            /\ cooldownUntil' = Shift(cooldownUntil, 0, now')
       ELSE /\ now' = now
            /\ cooldownUntil' = Shift(cooldownUntil, TickMs, now)
  /\ lastEvent' = "tick"
  /\ before' = Snapshot
  /\ UNCHANGED stale
  /\ recentSuccess' = FALSE
  /\ UNCHANGED << uploadedImage, gender, queue, activeRequests, results,
                  selectedStyles, consecutiveErrors, isPaused, calls,
                  effectPending, starts, streak, requeued >>

Next ==
  \/ \E image \in Images, g \in Genders : handleStart(image, g)
  \/ \E styleId \in PHOTO_STYLES : handleRetry(styleId)
  \/ handleGenerateSelected
  \/ \E id \in PHOTO_STYLES : toggleSelection(id)
  \/ handleSelectAll
  \/ handlePauseToggle
  \/ TimerTick
  \/ QueueProcessor
  \/ \E c \in BagToSet(calls) : Settle(c)
  \/ Tick

Spec == Init /\ [][Next]_vars

\* ------------------------------------------------------------ fairness
\* A call for style id settles with a success or with a permanent failure.
SettleFinal(id) ==
  \E c \in BagToSet(calls) :
    /\ c.styleId = id
    /\ Settle(c)
    /\ lastEvent' \in {"success", "permanentFailure"}

\* The user presses "Resume Generation".
Resume == isPaused /\ handlePauseToggle

\* The event loop runs every effect, timer callback and continuation that is
\* due; time passes; every call settles, and not with rate-limit errors
\* forever; the user resumes a paused queue.
LiveSpec ==
  /\ Init /\ [][Next]_vars
  /\ WF_vars(QueueProcessor)
  /\ SF_vars(TimerTick)
  /\ SF_vars(Tick)
  /\ SF_vars(Resume)
  /\ \A id \in PHOTO_STYLES : SF_vars(SettleFinal(id))

\* ------------------------------------------------------------ properties
\* A step that dispatches a call.
Dispatched == BagCardinality(calls') = BagCardinality(calls) + 1

\* A step in which a call failed with a rate-limit error.
RateLimited == lastEvent' \in {"rateLimit", "circuitBreaker"}

\* C1: the number of items whose status is Generating is never more than 1.
C1_AtMostOneGenerating == Cardinality(StatusIds("generating")) <= 1

\* C2: activeRequests is 0 or 1 in every reachable state.
C2_ActiveRequestsZeroOrOne == activeRequests \in {0, 1}

\* C3: a call is dispatched only from a state where paused is false, the
\* cooldown has expired, activeRequests is 0, the queue is non-empty and a
\* source image is set.
C3_DispatchOnlyWhenPermitted ==
  [][Dispatched =>
       /\ ~isPaused
       /\ now >= cooldownUntil
       /\ activeRequests = 0
       /\ Len(queue) > 0
       /\ uploadedImage # null]_vars

Waiting(id) ==
  id \in DOMAIN results /\ results[id].status \in {"pending", "generating"}

Settled(id) ==
  id \in DOMAIN results /\ results[id].status \in {"completed", "failed"}

\* C4 as stated: every id that is queued or generating eventually becomes
\* Completed or Failed.
C4_NoLoss == \A id \in PHOTO_STYLES : Waiting(id) ~> Settled(id)

\* C5: an id whose call failed with a rate-limit error is put at the head of
\* the queue, and it is the next id dispatched.
C5_RequeuedIsNextDispatched ==
  [][/\ (RateLimited /\ requeued = 0) => queue' = <<requeued'>> \o queue
     /\ (Dispatched /\ requeued # 0) => queue[1] = requeued]_vars

C7_CircuitBreaker ==
  [][/\ RateLimited =>
          (lastEvent' = "circuitBreaker" <=> streak' = MAX_CONSECUTIVE_ERRORS)
     /\ lastEvent' = "circuitBreaker" => isPaused'
     /\ streak >= MAX_CONSECUTIVE_ERRORS => ~Dispatched]_vars

C9_Resume ==
  [][/\ lastEvent' = "resume" =>
          ~isPaused' /\ consecutiveErrors' = 0 /\ cooldownUntil' = 0
     /\ (lastEvent = "resume" /\ Len(queue) > 0 /\ InFlight = 0) =>
          /\ Dispatched
          /\ queue' = Tail(queue)
          /\ results'[Head(queue)].status = "generating"]_vars

\* The queue has just been resumed after the breaker tripped during a
\* cooldown-free pause: the streak was 3, the queue is non-empty, nothing is in flight.
C9_Witness ==
  /\ lastEvent = "resume"
  /\ before.isPaused
  /\ before.consecutiveErrors = MAX_CONSECUTIVE_ERRORS
  /\ Len(queue) > 0
  /\ InFlight = 0

\* C10: a success sets consecutiveErrors to 0 and cooldownUntil to
\* now + REQUEST_DELAY_MS, whatever the streak was.
C10_SuccessResets ==
  [][lastEvent' = "success" =>
       /\ consecutiveErrors' = 0
       /\ cooldownUntil' = now' + REQUEST_DELAY_MS]_vars

\* A call has just succeeded after two consecutive rate-limit failures.
C10_Witness ==
  /\ lastEvent = "success"
  /\ before.consecutiveErrors = 2
  /\ consecutiveErrors = 0
  /\ cooldownUntil = now + REQUEST_DELAY_MS

\* Number of occurrences of x in the sequence s.
Count(s, x) == Cardinality({ i \in DOMAIN s : s[i] = x })

\* Number of calls in flight for style id.
CallsFor(id) ==
  BagCardinality([ c \in { d \in BagToSet(calls) : d.styleId = id } |-> calls[c] ])

\* The step is retry(id).
Retried(id) == lastEvent' = "retry" /\ queue' = Append(queue, id)

\* C11: retry(id) sets the item to Pending with error and imageUrl cleared and
\* leaves every other item alone, appends id to the tail of the queue, and
\* afterwards id is queued exactly once with no call for it in flight, so it is
\* dispatched exactly once more unless that call fails.
C11_Retry ==
  [][\A id \in PHOTO_STYLES : Retried(id) =>
       /\ results[id].status \in {"failed", "completed"}
       /\ results' = [results EXCEPT ![id] =
            [styleId |-> id, imageUrl |-> null, status |-> "pending",
             error |-> undefined]]
       /\ Count(queue', id) = 1
       /\ CallsFor(id)' = 0]_vars

\* C12: for every item, imageUrl is non-null if and only if its status is
\* Completed.
C12_ImageIffCompleted ==
  \A id \in DOMAIN results :
    results[id].imageUrl # null <=> results[id].status = "completed"

\* C13: a Completed item carries no error, and an error carried by a Pending
\* item is cleared when the item next changes status.
C13_CompletedHasNoError ==
  /\ [](\A id \in DOMAIN results :
          results[id].status = "completed" => results[id].error = undefined)
  /\ [][\A id \in DOMAIN results :
          (/\ results[id].status = "pending"
           /\ results[id].error # undefined
           /\ id \in DOMAIN results'
           /\ results'[id].status # "pending")
          => results'[id].error = undefined]_vars

\* C14: the queue never contains the same style id twice.
C14_QueueHasNoDuplicates == \A id \in PHOTO_STYLES : Count(queue, id) <= 1

\* A step in which a call settles.
Resolved ==
  lastEvent' \in {"success", "rateLimit", "circuitBreaker", "permanentFailure"}

\* Nothing has been enqueued since the last start: every item is Idle and the
\* queue is empty, so a call still in flight was dispatched before that start.
FreshSession ==
  /\ hasStarted
  /\ \A id \in DOMAIN results : results[id].status = "idle"
  /\ queue = <<>>

\* C15: the outcome of a call dispatched before a start is not applied to the
\* new session: while nothing has been enqueued since the start, a call that
\* settles changes no item, not the queue and not the governor state.
C15_StaleOutcomeDiscarded ==
  [][(FreshSession /\ Resolved) =>
       UNCHANGED << results, queue, cooldownUntil, consecutiveErrors, isPaused >>]_vars

\* The call c settles in this step.
SettledCall(c) == BagIn(c, calls) /\ calls' = calls (-) SetToBag({c})

\* C16: in the state start leaves, every catalog id has an Idle item with
\* imageUrl null and no error, the queue and the selection are empty,
\* activeRequests, cooldownUntil and consecutiveErrors are 0 and paused is false.
C16_AfterStart ==
  lastEvent = "start" =>
    /\ DOMAIN results = PHOTO_STYLES
    /\ \A id \in PHOTO_STYLES :
         results[id] = [styleId |-> id, imageUrl |-> null, status |-> "idle",
                        error |-> undefined]
    /\ queue = <<>>
    /\ selectedStyles = <<>>
    /\ activeRequests = 0
    /\ cooldownUntil = 0
    /\ consecutiveErrors = 0
    /\ ~isPaused

\* Start has just been pressed in a session that the circuit breaker had
\* paused, with a call still in flight.
C16_Witness ==
  /\ lastEvent = "start"
  /\ before.isPaused
  /\ before.consecutiveErrors >= MAX_CONSECUTIVE_ERRORS
  /\ InFlight > 0

\* C17: a call that fails with an error that is not a rate-limit error makes
\* its item Failed with the error message (a placeholder for an empty one),
\* does not change the queue, cooldownUntil or paused, and sets
\* consecutiveErrors to 0.
C17_PermanentFailure ==
  [][lastEvent' = "permanentFailure" =>
       \E c \in BagToSet(calls) :
         /\ SettledCall(c)
         /\ results'[c.styleId].status = "failed"
         /\ \E errorMessage \in ErrorMessages :
              /\ ~isRateLimit(errorMessage)
              /\ results'[c.styleId].error =
                   IF errorMessage # "" THEN errorMessage ELSE "Unknown error"
         /\ queue' = queue
         /\ cooldownUntil' = cooldownUntil
         /\ isPaused' = isPaused
         /\ consecutiveErrors' = 0]_vars

\* A call has just failed permanently after two rate-limit failures, while
\* the queue was paused by the user.
C17_Witness ==
  /\ lastEvent = "permanentFailure"
  /\ before.consecutiveErrors = 2
  /\ before.isPaused
  /\ isPaused
  /\ consecutiveErrors = 0
  /\ \E id \in DOMAIN results :
       /\ results[id].status = "failed"
       /\ results[id].error = "No image data found in response"

\* C18: a call that fails with a rate-limit error raises consecutiveErrors by
\* exactly 1 from its current value, puts the failing id at the head of the
\* queue in front of the unchanged rest, and leaves the item Pending with
\* imageUrl null.
C18_TransientFailure ==
  [][RateLimited =>
       \E c \in BagToSet(calls) :
         /\ SettledCall(c)
         /\ consecutiveErrors' = consecutiveErrors + 1
         /\ queue' = <<c.styleId>> \o queue
         /\ results'[c.styleId].status = "pending"
         /\ results'[c.styleId].imageUrl = null]_vars

\* A step in which a call failed.
FailedCall == lastEvent' \in {"rateLimit", "circuitBreaker", "permanentFailure"}

\* C19: after a failed call resolves, the failing item is either Pending and
\* in the queue, or Failed with a non-empty error message.
C19_NoErrorDropped ==
  [][FailedCall =>
       \E c \in BagToSet(calls) :
         /\ SettledCall(c)
         /\ \/ /\ results'[c.styleId].status = "pending"
               /\ c.styleId \in Range(queue')
            \/ /\ results'[c.styleId].status = "failed"
               /\ results'[c.styleId].error \notin {undefined, ""}]_vars

\* A call has just failed with an empty error message: the item is Failed
\* with the placeholder message.
C19_Witness ==
  /\ lastEvent = "permanentFailure"
  /\ \E id \in DOMAIN results :
       results[id].status = "failed" /\ results[id].error = "Unknown error"

\* What C20 says of a call that settles while the queue is paused, except for
\* the cooldown a rate-limit failure sets: the outcome is applied and the slot
\* is released; and no call is dispatched while the queue is paused.
PausedCallApplied ==
  /\ (isPaused /\ Resolved) =>
       \E c \in BagToSet(calls) :
         /\ SettledCall(c)
         /\ activeRequests' = activeRequests - 1
         /\ lastEvent' = "success" =>
              /\ results'[c.styleId].status = "completed"
              /\ results'[c.styleId].imageUrl \in ImageUrls
              /\ cooldownUntil' = now' + REQUEST_DELAY_MS
         /\ RateLimited =>
              /\ results'[c.styleId].status = "pending"
              /\ queue' = <<c.styleId>> \o queue
         /\ lastEvent' = "permanentFailure" =>
              results'[c.styleId].status = "failed"
  /\ isPaused => ~Dispatched

\* C20 as stated: a call that settles while the queue is paused is applied and
\* releases the slot, a rate-limit failure always setting a backoff cooldown;
\* no call is dispatched while paused.
C20_PausedCallBacksOff ==
  [][/\ PausedCallApplied
     /\ (isPaused /\ RateLimited) =>
          cooldownUntil' = now' + backoffTime(consecutiveErrors')]_vars

\* C21: the slot is never leaked: activeRequests never exceeds the number of
\* calls in flight; a step that takes the head off the queue either makes a
\* call and raises activeRequests by 1 or makes no call and leaves it as it was;
\* a call that settles, whatever its outcome, lowers it by exactly 1.
C21_SlotNeverLeaked ==
  /\ [](activeRequests <= InFlight)
  /\ [][/\ lastEvent' = "dispatch" =>
             \/ Dispatched /\ activeRequests' = activeRequests + 1
             \/ calls' = calls /\ activeRequests' = activeRequests
        /\ Resolved =>
             /\ \E c \in BagToSet(calls) : SettledCall(c)
             /\ activeRequests' = activeRequests - 1]_vars

\* The circuit breaker has just tripped and the slot is free again.
C21_Witness ==
  /\ lastEvent = "circuitBreaker"
  /\ InFlight = 0
  /\ activeRequests = 0
  /\ isPaused

\* C22 (as stated): no call is dispatched less than REQUEST_DELAY_MS after a
\* call completed successfully, whatever the user does in between.
C22_MinimumSpacing == [][Dispatched => ~recentSuccess]_vars

\* C23: when the circuit breaker trips, the failing id is put at the head of
\* the queue in front of the unchanged rest, its status is Pending with an
\* advisory error, cooldownUntil is 0, the queue is paused, and every other
\* item and every other field of the failing item is as before.
C23_BreakerTrip ==
  [][lastEvent' = "circuitBreaker" =>
       \E c \in BagToSet(calls) :
         /\ SettledCall(c)
         /\ queue' = <<c.styleId>> \o queue
         /\ results'[c.styleId].status = "pending"
         /\ results'[c.styleId].error \notin {undefined, ""}
         /\ results'[c.styleId].imageUrl = results[c.styleId].imageUrl
         /\ \A id \in DOMAIN results \ {c.styleId} : results'[id] = results[id]
         /\ cooldownUntil' = 0
         /\ isPaused']_vars

\* The circuit breaker has just tripped while another id was waiting: the
\* failing id stands in front of it.
C23_Witness ==
  /\ lastEvent = "circuitBreaker"
  /\ Len(queue) >= 2
  /\ results[queue[1]].status = "pending"
  /\ results[queue[1]].error = "Rate limit reached. Paused."
  /\ cooldownUntil = 0
  /\ isPaused

\* The selected ids among S.
SelectedOf(S) == Range(selectedStyles) \cap S

\* C24: with an Idle item, selectAll selects every Idle id, or deselects them
\* all when all were selected, and leaves the selection of every other id as it
\* was; with no Idle item it selects every Completed id, or none when all were
\* selected; it never changes the selection of both groups at once.
C24_SelectAllPriority ==
  [][lastEvent' = "selectAll" =>
       LET idle == StatusIds("idle")
           completed == StatusIds("completed")
       IN /\ IF idle # {}
               THEN /\ SelectedOf(idle)' =
                         IF idle \subseteq Range(selectedStyles) THEN {} ELSE idle
                    /\ Range(selectedStyles') \ idle = Range(selectedStyles) \ idle
               ELSE IF completed # {}
                      THEN SelectedOf(completed)' =
                             IF completed \subseteq Range(selectedStyles)
                               THEN {} ELSE completed
                      ELSE selectedStyles' = selectedStyles
          /\ ~ /\ SelectedOf(idle)' # SelectedOf(idle)
               /\ SelectedOf(completed)' # SelectedOf(completed)]_vars

\* selectAll has just selected the Idle ids and left a Completed id unselected.
C24_Witness ==
  /\ lastEvent = "selectAll"
  /\ StatusIds("idle") # {}
  /\ StatusIds("idle") \subseteq Range(selectedStyles)
  /\ StatusIds("completed") # {}
  /\ SelectedOf(StatusIds("completed")) = {}

\* C25: generateSelected appends the selected Idle ids, in selection order, to
\* the tail of the queue, marks exactly those ids Pending and clears the
\* selection; with no selected Idle id it leaves the queue, the statuses, the
\* selection and the governor as they were.
C25_GenerateSelected ==
  [][lastEvent' \in {"generateSelected", "generateNone"} =>
       IF stylesToGenerate = <<>>
         THEN UNCHANGED << queue, results, selectedStyles, activeRequests,
                           cooldownUntil, consecutiveErrors, isPaused >>
         ELSE /\ queue' = queue \o stylesToGenerate
              /\ Range(stylesToGenerate) =
                   Range(selectedStyles) \cap StatusIds("idle")
              /\ \A i, j \in DOMAIN stylesToGenerate :
                   i < j =>
                     \E k, l \in DOMAIN selectedStyles :
                       /\ k < l
                       /\ selectedStyles[k] = stylesToGenerate[i]
                       /\ selectedStyles[l] = stylesToGenerate[j]
              /\ \A id \in DOMAIN results :
                   results'[id] =
                     IF id \in Range(stylesToGenerate)
                       THEN [results[id] EXCEPT !.status = "pending"]
                       ELSE results[id]
              /\ selectedStyles' = <<>>]_vars

\* generateSelected has just enqueued two ids in the order they were selected,
\* which is not the order of the catalog.
C25_Witness ==
  /\ lastEvent = "generateSelected"
  /\ Len(queue) >= 2
  /\ queue[Len(queue) - 1] > queue[Len(queue)]
  /\ results[queue[Len(queue)]].status = "pending"
  /\ selectedStyles = <<>>

\* C26: toggleSelection and handleSelectAll change nothing but the selection:
\* the items, the queue, activeRequests, cooldownUntil, consecutiveErrors and
\* isPaused are as before.
C26_SelectionOnly ==
  [][lastEvent' \in {"toggleSelection", "selectAll"} =>
       UNCHANGED << results, queue, activeRequests, cooldownUntil,
                    consecutiveErrors, isPaused >>]_vars

\* A completed id has just been deselected while the queue was busy and
\* cooling down.
C26_Witness ==
  /\ lastEvent = "toggleSelection"
  /\ selectedStyles = <<>>
  /\ StatusIds("completed") # {}
  /\ Len(queue) > 0
  /\ cooldownUntil > now
  /\ consecutiveErrors > 0

\* C27: the queue is first-in first-out: ids join at the tail (generateSelected,
\* retry), the id dispatched is the head and the rest keeps its order, and the
\* only id ever put in front of the others is the id of a call that failed with
\* a rate-limit error; a start empties the queue.
C27_Fifo ==
  [][/\ Dispatched =>
          /\ queue # <<>>
          /\ calls' (-) calls = SetToBag({[styleId |-> Head(queue),
                                             consecutiveErrors |-> consecutiveErrors,
                                             uploadedImage |-> uploadedImage,
                                             gender |-> gender]})
          /\ queue' = Tail(queue)
     /\ queue' # queue =>
          \/ /\ lastEvent' \in {"generateSelected", "retry"}
             /\ Len(queue') > Len(queue)
             /\ SubSeq(queue', 1, Len(queue)) = queue
          \/ /\ lastEvent' = "dispatch"
             /\ queue' = Tail(queue)
          \/ /\ RateLimited
             /\ \E c \in BagToSet(calls) :
                  SettledCall(c) /\ queue' = <<c.styleId>> \o queue
          \/ /\ lastEvent' = "start"
             /\ queue' = <<>>]_vars

\* C28: an item changes status only along the lifecycle: idle to pending by
\* generateSelected, pending to generating by a dispatch, generating to
\* completed, failed or pending by the outcome of a call, failed or completed
\* to pending by a retry, and any status to idle by a start.
C28_Lifecycle ==
  [][\A id \in DOMAIN results :
       LET from == results[id].status
           to == results'[id].status
       IN from # to =>
            \/ from = "idle" /\ to = "pending" /\ lastEvent' = "generateSelected"
            \/ from = "pending" /\ to = "generating" /\ lastEvent' = "dispatch"
            \/ /\ from = "generating"
               /\ to \in {"completed", "failed", "pending"}
               /\ Resolved
            \/ /\ from \in {"failed", "completed"}
               /\ to = "pending"
               /\ lastEvent' = "retry"
            \/ to = "idle" /\ lastEvent' = "start"]_vars

\* C29: the outcome of a call is applied in one step: the step that releases
\* the slot also sets the status and the cooldown (success), or requeues the id
\* at the head and sets the backoff or the pause (rate-limit failure), and makes
\* no call; the evaluation of the Queue Processor on the state the resolution
\* leaves sees all of it and dispatches nothing (an evaluation that an earlier
\* commit scheduled works on the state of that commit, not on this one).
C29_ResolutionAtomic ==
  [][/\ Resolved =>
          \E c \in BagToSet(calls) :
            /\ SettledCall(c)
            /\ activeRequests' = activeRequests - 1
            /\ lastEvent' = "success" =>
                 /\ results'[c.styleId].status = "completed"
                 /\ consecutiveErrors' = 0
                 /\ cooldownUntil' > now'
            /\ RateLimited =>
                 /\ results'[c.styleId].status = "pending"
                 /\ queue' = <<c.styleId>> \o queue
                 /\ consecutiveErrors' > 0
                 /\ cooldownUntil' > now' \/ isPaused'
            /\ effectPending'
     /\ (lastEvent \in {"success", "rateLimit", "circuitBreaker"} /\ stale = <<>>) =>
          /\ effectPending => lastEvent' = "effectIdle"
          /\ ~Dispatched]_vars

\* A call has just failed with a rate-limit error: the slot is free, the queue
\* is running and not empty, and the Queue Processor is about to evaluate.
C29_Witness ==
  /\ lastEvent = "rateLimit"
  /\ effectPending
  /\ activeRequests = 0
  /\ InFlight = 0
  /\ Len(queue) > 0
  /\ ~isPaused
  /\ cooldownUntil > now

\* The Queue Processor has an id to dispatch and nothing but a cooldown in its
\* way.
Ready ==
  /\ Len(queue) > 0
  /\ InFlight = 0
  /\ ~isPaused
  /\ uploadedImage # null

\* C30: while the queue is not empty, no call is in flight, the queue is not
\* paused and an image is set, a call is eventually dispatched: a cooldown in
\* the way is found expired by the interval of the Timer effect, whether it was
\* set while the queue was running or paused and however the pause ended.
C30_Progress == Ready ~> (lastEvent = "dispatch" \/ ~Ready)

\* A cooldown was set while the queue was paused, and a retry has just ended
\* the pause without clearing it: the queue is ready and still cooling down.
C30_Witness ==
  /\ Ready
  /\ lastEvent = "retry"
  /\ before.isPaused
  /\ cooldownUntil > now
  /\ activeRequests = 0

\* C31: an id is in the queue if and only if its item is Pending, and no id is
\* in the queue twice.
C31_QueuedIffPending ==
  /\ Range(queue) = StatusIds("pending")
  /\ \A id \in PHOTO_STYLES : Count(queue, id) <= 1

\* C32: activeRequests is the number of Generating items.
C32_ActiveIsGenerating ==
  activeRequests = Cardinality(StatusIds("generating"))

\* C35: consecutiveErrors is between 0 and MAX_CONSECUTIVE_ERRORS.
C35_StreakInRange == consecutiveErrors \in 0..MAX_CONSECUTIVE_ERRORS

\* C36: handleRetry and handleGenerateSelected leave consecutiveErrors and
\* cooldownUntil as they were, also when the queue is paused.
C36_EnqueueKeepsGovernor ==
  [][lastEvent' \in {"retry", "generateSelected", "generateNone"} =>
       UNCHANGED << consecutiveErrors, cooldownUntil >>]_vars

\* C37: every selected id is Idle or Completed.
C37_SelectionIdleOrCompleted ==
  Range(selectedStyles) \subseteq StatusIds("idle") \cup StatusIds("completed")

\* C38: a paused queue is not empty.
C38_PausedQueueNonEmpty == isPaused => Len(queue) > 0

\* C34: the circuit breaker pauses the queue only on the 3rd or a later
\* rate-limit failure since the last explicit resume, success or permanent
\* failure, also when the failing call was dispatched before the resume.
C34_TripNeedsThreeSinceResume ==
  [][lastEvent' = "circuitBreaker" => streak' >= MAX_CONSECUTIVE_ERRORS]_vars

\* A retry has just ended a pause of the circuit breaker: the streak and the
\* cooldown are as the breaker left them.
C36_Witness ==
  /\ lastEvent = "retry"
  /\ before.isPaused
  /\ ~isPaused
  /\ consecutiveErrors >= MAX_CONSECUTIVE_ERRORS
  /\ before.consecutiveErrors = consecutiveErrors

\* C33: a dispatch removes the head of the queue and nothing else: every other
\* id that is in the queue when the Queue Processor runs is still there
\* afterwards, in the same order.
C33_DequeueOnlyHead ==
  [][lastEvent' = "dispatch" => queue # <<>> /\ queue' = Tail(queue)]_vars

=============================================================================
